---- MODULE Spec2Model ----
(***************************************************************************)
(* The Portis session object of packages/portis-web3/src/index.ts: the     *)
(* constructor, the memoized widget promise and its connect handshake, the *)
(* provider engine with its seven registered stages, the synchronous       *)
(* facade engine.send, engine.enable and the session's public methods.     *)
(*                                                                         *)
(* JavaScript runs one job at a time, so one action is one job: a public   *)
(* call up to its first suspension, or the continuation of one await.      *)
(***************************************************************************)
EXTENDS Integers, Sequences, FiniteSets, TLC

\* ------------------------------------------------------------------ bounds
MaxRequests == 2   \* requests in flight in the pipeline at one time
MaxUiCalls == 1    \* showPortis / login / _setHeight calls pending at one time
MaxSessionRequests == 1  \* requests in flight where every operation is at play

\* --------------------------------------------------------------- constants
version == "$$PORTIS_SDK_VERSION$$"
widgetUrl == "https://widget.portis.io"

Fixture == 1
Cache == 2
Subscriptions == 3
Filter == 4
Nonce == 5
HookedWallet == 6
Relay == 7

\* JavaScript undefined / null where a string is expected.
Undefined == "undefined"

\* ------------------------------------------------------------------ values
\* A JavaScript value that crosses the channel: null, a list of strings, a
\* string or a boolean.  Every value keeps its items in a sequence so that
\* any two values can be compared.
Null == [t |-> "null", v |-> <<>>]
List(s) == [t |-> "list", v |-> s]
Str(s) == [t |-> "str", v |-> <<s>>]
Bool(b) == [t |-> "bool", v |-> <<IF b THEN "true" ELSE "false">>]

\* JavaScript truthiness: null, the empty string and false are falsy; every
\* array, the empty one included, is truthy.
Truthy(x) ==
  CASE x.t = "null" -> FALSE
    [] x.t = "list" -> TRUE
    [] x.t = "str" -> x.v[1] # ""
    [] x.t = "bool" -> x.v[1] = "true"

\* A string used as a condition: undefined and the empty string are falsy.
isSet(x) == x # Undefined /\ x # ""

\* result[0] of an array: undefined when the array is empty.
FirstOf(x) == IF x.t = "list" /\ Len(x.v) > 0 THEN x.v[1] ELSE Undefined

\* ------------------------------------------------------------- input sets
DappIds == {"", "dapp1"}
NetworkInputs == {"", "mainnet"}
NetworkNames == {"mainnet", "ropsten"}
Emails == {"a@x.io"}
LoginCallbacks == {"cb1"}
Heights == {100}
Ids == {1, 2}

\* options.scope as passed by the caller: absent, a falsy value that is no
\* array (0, the empty string), a truthy value that is no array, or an array.
ScopeInputs ==
  { [kind |-> "absent", items |-> <<>>],
    [kind |-> "falsy", items |-> <<>>],
    [kind |-> "nonArray", items |-> <<>>],
    [kind |-> "array", items |-> <<"email">>],
    [kind |-> "array", items |-> <<"unknownValue">>],
    [kind |-> "array", items |-> <<"email", "unknownValue">>] }

ReadyStates == {"loading", "interactive", "complete"}

\* The methods callers send.  One or more per stage of the pipeline, plus a
\* method no stage recognizes.
FixtureMethods ==
  {"web3_clientVersion", "net_listening", "eth_hashrate", "eth_mining", "eth_syncing"}
Methods ==
  {"web3_clientVersion", "eth_getBalance", "eth_subscribe", "eth_uninstallFilter",
   "eth_accounts", "eth_coinbase", "eth_sign", "foo_bar"}

\* What the widget answers to getAccounts and to the other remote calls:
\* an {error, result} pair.
Errors == {Undefined, "denied"}
AccountResults == {Null, List(<<>>), List(<<"0xA">>), List(<<"0xB", "0xA">>)}
OtherResults == {Null, Str("0xsig")}

\* ------------------------------------------------------------------- state
VARIABLES
  phase,            \* "new", "constructed" or "threw": the constructor call
  ctorArgs,         \* the arguments the constructor was called with
  readyState,       \* document.readyState
  loadListener,     \* onload is registered for the window's load event
  widget,           \* this.widget: state of the memoized promise and its session
  connections,      \* connection.promise of each Penpal.connectToChild call
  containers,       \* number of containers appended to document.body
  frameHeight,      \* widgetFrame.style.height
  provider,         \* this.provider is built and started
  config,           \* this.config
  selectedAddress,  \* this.selectedAddress
  onLoginCallback,  \* this._onLoginCallback
  requests,         \* the requests in flight in the pipeline, in admission order
  uiCalls,          \* the pending showPortis / login / _setHeight calls
  returned,         \* what the step just taken returned, threw or settled
  delivered,        \* the request the step just taken finished, and its callback
  remote,           \* the remote call the step just taken issued, or its answer
  lastAccounts      \* the address list of the latest getAccounts answer without error

vars ==
  <<phase, ctorArgs, readyState, loadListener, widget, connections,
    containers, frameHeight, provider, config, selectedAddress, onLoginCallback,
    requests, uiCalls, returned, delivered, remote, lastAccounts>>

NoArgs == [dappId |-> "", network |-> "", scope |-> [kind |-> "absent", items |-> <<>>]]
NoConfig ==
  [dappId |-> "", network |-> [nodeUrl |-> "", chainId |-> ""], version |-> "",
   scope |-> [kind |-> "absent", items |-> <<>>], defaultEmail |-> Undefined]
NoWidget == [state |-> "unset", session |-> 0]
NoParams == [from |-> Undefined, data |-> Undefined, messageStandard |-> Undefined]
NoPayload == [id |-> 0, jsonrpc |-> Undefined, method |-> Undefined, params |-> NoParams]
NoResponse == [id |-> 0, jsonrpc |-> Undefined, result |-> Null, error |-> Undefined]
NoRequest ==
  [payload |-> NoPayload, origin |-> "none", visited |-> <<>>, stage |-> 0,
   hook |-> "none", pc |-> "none", calls |-> 0, session |-> 0]
NoPromise == [state |-> "none", error |-> Undefined, value |-> Null]
NoReturn ==
  [kind |-> "none", call |-> "none", payload |-> NoPayload,
   response |-> NoResponse, error |-> Undefined, session |-> 0]
NoDelivery ==
  [kind |-> "none", pos |-> 0, req |-> NoRequest, error |-> Undefined,
   response |-> NoResponse, promise |-> NoPromise]
NoRemote ==
  [kind |-> "none", fn |-> "none", by |-> "none", payload |-> NoPayload,
   session |-> 0, config |-> NoConfig, error |-> Undefined, result |-> Null]

\* A step's outcome (the return of a call, a callback invocation, the remote
\* traffic) is observed before the next job runs.
idle == returned = NoReturn /\ delivered = NoDelivery /\ remote = NoRemote

\* No call returns, no request finishes and no remote traffic in this step.
quiet == returned' = NoReturn /\ delivered' = NoDelivery /\ remote' = NoRemote

\* ------------------------------------------------------------ construction
\* networks.ts is not part of the sources at hand: the adapter resolves a
\* network name to the node it stands for.
networkAdapter(network) ==
  CASE network = "mainnet" -> [nodeUrl |-> "https://mainnet.infura.io", chainId |-> "1"]
    [] network = "ropsten" -> [nodeUrl |-> "https://ropsten.infura.io", chainId |-> "3"]
    [] OTHER -> [nodeUrl |-> network, chainId |-> ""]

\* options.scope.filter(item => ['email'].indexOf(item) < 0)
unknownScope(scope) == SelectSeq(scope.items, LAMBDA item : item \notin {"email"})

\* options.scope used as a condition: every array is truthy.
scopeTruthy(scope) == scope.kind \in {"nonArray", "array"}

\* A validation that leaves the scope unexamined.
valiadateParamsWithoutScope(dappId, network, options) ==
  IF dappId = "" THEN "dappIdRequired"
  ELSE IF network = "" THEN "networkRequired"
  ELSE "ok"

\* _valiadateParams: "ok", or the error it throws.
valiadateParams(dappId, network, options) ==
  IF dappId = "" THEN "dappIdRequired"
  ELSE IF network = "" THEN "networkRequired"
  ELSE IF scopeTruthy(options.scope)
    THEN IF options.scope.kind # "array" THEN "scopeMustBeArray"
         ELSE IF Len(unknownScope(options.scope)) > 0 THEN "scopeInvalid"
         ELSE "ok"
  ELSE "ok"

\* A test that takes no document for ready.
documentReadyNever(rs) == FALSE

\* ['loaded', 'interactive', 'complete'].indexOf(document.readyState) > -1
documentReady(rs) == rs \in {"loaded", "interactive", "complete"}

\* An executor that registers onload for the load event whatever the
\* document's state.
registersAlways(rs) == TRUE

\* The executor of the widget promise registers onload for the load event
\* only when it did not run it at once.
registersListener(rs) == ~documentReady(rs)

\* onload up to its await: the container is attached and the connect
\* handshake is initiated.
onload ==
  /\ containers' = containers + 1
  /\ connections' = Append(connections, "pending")

handshakes == Len(connections)

\* new Portis(dappId, network, options)
Construct(dappId, network, options) ==
  /\ idle
  /\ phase = "new"
  /\ ctorArgs' = [dappId |-> dappId, network |-> network, scope |-> options.scope]
  /\ quiet
  /\ UNCHANGED <<readyState, frameHeight, selectedAddress, onLoginCallback,
                 requests, uiCalls, lastAccounts>>
  /\ IF valiadateParams(dappId, network, options) # "ok"
       THEN /\ phase' = "threw"
            /\ UNCHANGED <<loadListener, widget, connections, containers,
                           provider, config>>
       ELSE /\ phase' = "constructed"
            /\ config' = [dappId |-> dappId, network |-> networkAdapter(network),
                          version |-> version, scope |-> options.scope,
                          defaultEmail |-> Undefined]
            /\ widget' = [state |-> "pending", session |-> 0]
            /\ loadListener' = registersListener(readyState)
            /\ IF documentReady(readyState)
                 THEN onload
                 ELSE UNCHANGED <<connections, containers>>
            /\ provider' = TRUE

\* The document finishes parsing: readyState becomes 'interactive'.
DocumentInteractive ==
  /\ idle
  /\ readyState = "loading"
  /\ readyState' = "interactive"
  /\ quiet
  /\ UNCHANGED <<phase, ctorArgs, loadListener, widget, connections, containers,
                 frameHeight, provider, config, selectedAddress, onLoginCallback,
                 requests, uiCalls,
                 lastAccounts>>

\* The window's load event: readyState becomes 'complete' and the registered
\* listener, if any, runs onload.  The event fires once per page.
WindowLoad ==
  /\ idle
  /\ readyState # "complete"
  /\ readyState' = "complete"
  /\ IF loadListener THEN onload ELSE UNCHANGED <<connections, containers>>
  /\ quiet
  /\ UNCHANGED <<phase, ctorArgs, loadListener, widget, frameHeight, provider,
                 config, selectedAddress, onLoginCallback, requests, uiCalls,
                 lastAccounts>>

\* connection.promise of handshake i resolves: onload resumes after its
\* await and resolves the widget promise (a settled promise stays as it is).
HandshakeResolves(i) ==
  /\ idle
  /\ i \in 1..Len(connections) /\ connections[i] = "pending"
  /\ connections' = [connections EXCEPT ![i] = "resolved"]
  /\ widget' = IF widget.state = "pending"
                 THEN [state |-> "resolved", session |-> i] ELSE widget
  /\ quiet
  /\ UNCHANGED <<phase, ctorArgs, readyState, loadListener, containers,
                 frameHeight, provider, config, selectedAddress, onLoginCallback,
                 requests, uiCalls,
                 lastAccounts>>

\* connection.promise of handshake i rejects: onload throws at its await,
\* resolve is never called and nothing calls reject.
HandshakeRejects(i) ==
  /\ idle
  /\ i \in 1..Len(connections) /\ connections[i] = "pending"
  /\ connections' = [connections EXCEPT ![i] = "rejected"]
  /\ quiet
  /\ UNCHANGED <<phase, ctorArgs, readyState, loadListener, widget, containers,
                 frameHeight, provider, config, selectedAddress, onLoginCallback,
                 requests, uiCalls,
                 lastAccounts>>

\* ---------------------------------------------------------------- pipeline
\* A registration that puts the Fixture stage behind the Cache stage.
providersCacheFirst ==
  <<Cache, Fixture, Subscriptions, Filter, Nonce, HookedWallet, Relay>>

\* The stages in the order engine.addProvider registers them.
providers == <<Fixture, Cache, Subscriptions, Filter, Nonce, HookedWallet, Relay>>

CacheableMethods == {"eth_getBalance"}
SubscriptionMethods == {"eth_subscribe", "eth_unsubscribe"}
FilterMethods == {"eth_newFilter", "eth_getFilterChanges", "eth_uninstallFilter"}
NonceMethods == {"eth_getTransactionCount"}
AccountMethods == {"eth_accounts", "eth_coinbase"}
SignMethods ==
  {"eth_sign", "personal_sign", "eth_signTypedData", "eth_signTransaction"}

\* What the stages' own state decides for a request: whether the cache (or
\* the nonce tracker) holds an answer, and whether the Subscriptions stage,
\* which extends the Filter stage, serves the filter methods itself.
LibChoices == [hit : BOOLEAN, subscriptionsFilter : BOOLEAN]

\* The choices that make a difference to a method.
LibChoicesFor(method) ==
  { lib \in LibChoices :
      /\ method \notin CacheableMethods \cup NonceMethods => ~lib.hit
      /\ method \notin FilterMethods => ~lib.subscriptionsFilter }

\* A Relay stage that answers by itself instead of calling the widget.
consultRelayEnds(stage, payload, lib) ==
  CASE stage = Fixture ->
         IF payload.method \in FixtureMethods THEN "end" ELSE "next"
    [] stage = Cache ->
         IF payload.method \in CacheableMethods /\ lib.hit THEN "end" ELSE "next"
    [] stage = Subscriptions ->
         IF payload.method \in SubscriptionMethods THEN "end"
         ELSE IF payload.method \in FilterMethods /\ lib.subscriptionsFilter
           THEN "end" ELSE "next"
    [] stage = Filter ->
         IF payload.method \in FilterMethods THEN "end" ELSE "next"
    [] stage = Nonce ->
         IF payload.method \in NonceMethods /\ lib.hit THEN "end" ELSE "next"
    [] stage = HookedWallet ->
         IF payload.method \in AccountMethods \cup SignMethods
           THEN "hook" ELSE "next"
    [] stage = Relay -> "end"

\* handleRequest of one stage: "end", "next", or, for the two stages that
\* call the widget, "hook" and "relay".
consult(stage, payload, lib) ==
  CASE stage = Fixture ->
         IF payload.method \in FixtureMethods THEN "end" ELSE "next"
    [] stage = Cache ->
         IF payload.method \in CacheableMethods /\ lib.hit THEN "end" ELSE "next"
    [] stage = Subscriptions ->
         IF payload.method \in SubscriptionMethods THEN "end"
         ELSE IF payload.method \in FilterMethods /\ lib.subscriptionsFilter
           THEN "end" ELSE "next"
    [] stage = Filter ->
         IF payload.method \in FilterMethods THEN "end" ELSE "next"
    [] stage = Nonce ->
         IF payload.method \in NonceMethods /\ lib.hit THEN "end" ELSE "next"
    [] stage = HookedWallet ->
         IF payload.method \in AccountMethods \cup SignMethods
           THEN "hook" ELSE "next"
    [] stage = Relay -> "relay"

\* The result a stage that ends a request by itself passes to end.
stageResult(stage, payload) ==
  CASE stage = Fixture /\ payload.method = "web3_clientVersion" ->
         Str("Portis/v$$PORTIS_SDK_VERSION$$/javascript")
    [] stage = Fixture /\ payload.method \in {"net_listening", "eth_syncing"} ->
         Bool(TRUE)
    [] stage = Fixture /\ payload.method = "eth_hashrate" -> Str("0x00")
    [] stage = Fixture /\ payload.method = "eth_mining" -> Bool(FALSE)
    [] stage = Cache -> Str("0xcached")
    [] stage = Subscriptions /\ payload.method \in SubscriptionMethods -> Str("0xsub")
    [] stage \in {Subscriptions, Filter} -> Bool(TRUE)
    [] OTHER -> Str("0xcached")

\* The engine walks the registered stages from position i until one does not
\* call next; seen is the sequence of stages consulted so far.
RECURSIVE walk(_, _, _, _)
walk(i, payload, lib, seen) ==
  LET stage == providers[i]
      outcome == consult(stage, payload, lib)
  IN IF outcome = "next" /\ i < Len(providers)
       THEN walk(i + 1, payload, lib, Append(seen, stage))
       ELSE [stage |-> stage, outcome |-> outcome, visited |-> Append(seen, stage)]

\* The response object the engine builds when a stage calls end.
resultObj(payload, error, result) ==
  [id |-> payload.id, jsonrpc |-> payload.jsonrpc, result |-> result,
   error |-> error]

\* The caller's callback of a request: the caller's own function, the
\* settling of enable's promise, or the discarding _ => _.
deliveryKind(origin) ==
  CASE origin = "callback" -> "callback"
    [] origin = "enable" -> "settle"
    [] origin = "forget" -> "discard"

\* The signing hook the HookedWallet stage calls for a method.
hookFor(method) ==
  CASE method = "eth_sign" -> "signMessage"
    [] method = "personal_sign" -> "signPersonalMessage"
    [] method = "eth_signTypedData" -> "signTypedMessage"
    [] method = "eth_signTransaction" -> "signTransaction"
    [] OTHER -> "none"

\* The hook of the HookedWallet stage a request calls first.  Signing
\* validates the sender against getAccounts before it signs.
firstHook(method) == IF method \in AccountMethods \cup SignMethods
                       THEN "getAccounts" ELSE "none"

\* A callback that resolves whatever the error.
enableCallbackResolves(error, response) ==
  [state |-> "resolved", error |-> Undefined, value |-> response.result]

\* engine.enable's callback: reject(error) if there is an error, else
\* resolve(response.result).
enableCallback(error, response) ==
  IF isSet(error)
    THEN [state |-> "rejected", error |-> error, value |-> Null]
    ELSE [state |-> "resolved", error |-> Undefined, value |-> response.result]

\* The callback invocation that finishes a request: (error, response) goes
\* to the caller's function, settles enable's promise, or is discarded.
finish(req, pos, error, result) ==
  LET response == resultObj(req.payload, error, result) IN
  [kind |-> deliveryKind(req.origin), pos |-> pos,
   req |-> [req EXCEPT !.pc = "done"], error |-> error, response |-> response,
   promise |-> IF req.origin = "enable"
                 THEN enableCallback(error, response) ELSE NoPromise]

\* A hook or handler that catches what it awaits and reports it as an error.
dropReportsError(req, pos) ==
  [kind |-> deliveryKind(req.origin), pos |-> pos,
   req |-> [req EXCEPT !.pc = "done"], error |-> "rejected",
   response |-> resultObj(req.payload, "rejected", Null),
   promise |-> IF req.origin = "enable"
                 THEN [state |-> "rejected", error |-> "rejected", value |-> Null]
                 ELSE NoPromise]

\* A hook or handler that threw: the request is dropped, no callback runs.
drop(req, pos) ==
  [kind |-> "dropped", pos |-> pos, req |-> [req EXCEPT !.pc = "dead"],
   error |-> Undefined, response |-> NoResponse, promise |-> NoPromise]

\* engine.sendAsync(payload, callback): the request as it stands when the
\* call returns, ended by a stage or suspended in a hook or in the relay.
admitted(payload, origin, lib) ==
  LET w == walk(1, payload, lib, <<>>)
      ended == w.outcome \notin {"hook", "relay"}
  IN [payload |-> payload, origin |-> origin, visited |-> w.visited,
      stage |-> w.stage,
      hook |-> IF w.outcome = "hook" THEN firstHook(payload.method)
               ELSE IF w.outcome = "relay" THEN "relay" ELSE "none",
      pc |-> IF ended THEN "done" ELSE "awaitWidget",
      calls |-> 0, session |-> 0]

room == Len(requests) < MaxRequests
uiRoom == Len(uiCalls) < MaxUiCalls

\* sendAsync's effect: a request a stage ends at once is finished within the
\* call, any other joins the requests in flight.
admit(payload, origin, lib) ==
  LET req == admitted(payload, origin, lib) IN
  IF req.pc = "done"
    THEN /\ requests' = requests
         /\ delivered' = finish(req, Len(requests) + 1, Undefined,
                                stageResult(req.stage, req.payload))
    ELSE /\ room
         /\ requests' = Append(requests, req)
         /\ delivered' = NoDelivery

remove(seq, i) == SubSeq(seq, 1, i - 1) \o SubSeq(seq, i + 1, Len(seq))

ready == phase = "constructed" /\ provider

Payloads ==
  { [id |-> i, jsonrpc |-> "2.0", method |-> m,
     params |-> IF m \in SignMethods
                  THEN [from |-> "0xA", data |-> "0xdata", messageStandard |-> Undefined]
                  ELSE NoParams] : i \in Ids, m \in Methods }

\* The methods callers send without a callback: the three the facade serves
\* and two it does not.
SyncMethods ==
  {"eth_accounts", "eth_coinbase", "eth_uninstallFilter", "eth_getBalance", "eth_sign"}
SyncPayloads == {p \in Payloads : p.method \in SyncMethods}

\* engine.send(payload, callback) with a callback, and engine.sendAsync.
SendAsync(payload, lib) ==
  /\ idle
  /\ ready
  /\ admit(payload, "callback", lib)
  /\ returned' = NoReturn /\ remote' = NoRemote
  /\ UNCHANGED <<phase, ctorArgs, readyState, loadListener, widget, connections,
                 containers, frameHeight, provider, config, selectedAddress,
                 onLoginCallback, uiCalls,
                 lastAccounts>>

\* engine.enable(): sendAsync of an eth_accounts payload that carries no id.
enablePayload ==
  [id |-> 0, jsonrpc |-> Undefined, method |-> "eth_accounts", params |-> NoParams]

Enable(lib) ==
  /\ idle
  /\ ready
  /\ admit(enablePayload, "enable", lib)
  /\ returned' = NoReturn /\ remote' = NoRemote
  /\ UNCHANGED <<phase, ctorArgs, readyState, loadListener, widget, connections,
                 containers, frameHeight, provider, config, selectedAddress,
                 onLoginCallback, uiCalls,
                 lastAccounts>>

\* A switch whose default case falls through to the null result.
syncResultNull(method, selected) ==
  CASE method \in {"eth_accounts", "eth_coinbase"} ->
         [kind |-> "result",
          value |-> List(IF isSet(selected) THEN <<selected>> ELSE <<>>)]
    [] method = "eth_uninstallFilter" -> [kind |-> "result", value |-> Bool(TRUE)]
    [] OTHER -> [kind |-> "result", value |-> Null]

\* The switch of engine.send without a callback: the result, or the throw.
syncResult(method, selected) ==
  CASE method = "eth_accounts" ->
         [kind |-> "result",
          value |-> List(IF isSet(selected) THEN <<selected>> ELSE <<>>)]
    [] method = "eth_coinbase" ->
         [kind |-> "result",
          value |-> List(IF isSet(selected) THEN <<selected>> ELSE <<>>)]
    [] method = "eth_uninstallFilter" -> [kind |-> "result", value |-> Bool(TRUE)]
    [] OTHER -> [kind |-> "throw", value |-> Null]

\* A switch that never calls engine.sendAsync.
syncForwardsNever(method) == FALSE

\* Whether the switch calls engine.sendAsync(payload, _ => _) on its way.
syncForwards(method) == method = "eth_uninstallFilter"

\* A returned object that leaves the id out.
syncResponseWithoutId(payload, result) ==
  [id |-> 0, jsonrpc |-> payload.jsonrpc, result |-> result, error |-> Undefined]

\* The object engine.send returns.
syncResponse(payload, result) ==
  [id |-> payload.id, jsonrpc |-> payload.jsonrpc, result |-> result,
   error |-> Undefined]

\* engine.send(payload) without a callback.
SendSync(payload, lib) ==
  /\ idle
  /\ ready
  /\ LET r == syncResult(payload.method, selectedAddress) IN
       /\ IF syncForwards(payload.method)
            THEN admit(payload, "forget", lib)
            ELSE requests' = requests /\ delivered' = NoDelivery
       /\ returned' =
            IF r.kind = "throw"
              THEN [NoReturn EXCEPT !.kind = "throw", !.call = "send",
                                    !.payload = payload,
                                    !.error = "unsupportedSyncMethod"]
              ELSE [NoReturn EXCEPT !.kind = "response", !.call = "send",
                                    !.payload = payload,
                                    !.response = syncResponse(payload, r.value)]
  /\ remote' = NoRemote
  /\ UNCHANGED <<phase, ctorArgs, readyState, loadListener, widget, connections,
                 containers, frameHeight, provider, config, selectedAddress,
                 onLoginCallback, uiCalls,
                 lastAccounts>>

\* ------------------------------------------------- hooks and relay handler
\* The remote method a hook or the relay handler calls.
remoteFn(hook) ==
  CASE hook = "getAccounts" -> "getAccounts"
    [] hook = "signTransaction" -> "signTransaction"
    [] hook \in {"signMessage", "signPersonalMessage", "signTypedMessage"} ->
         "signMessage"
    [] hook = "relay" -> "relay"

\* Object.assign with its sources swapped: a messageStandard of the caller's
\* own overrides the hook's.
remotePayloadCallerWins(hook, payload) ==
  IF hook = "getAccounts" THEN NoPayload
  ELSE IF hook \in {"signMessage", "signPersonalMessage", "signTypedMessage"}
            /\ ~isSet(payload.params.messageStandard)
    THEN [payload EXCEPT !.params.messageStandard = hook]
    ELSE payload

\* What a remote call carries besides this.config: nothing for getAccounts,
\* Object.assign({}, msgParams, { messageStandard: hook }) for the message
\* hooks, the payload as it is for the others.
remotePayload(hook, payload) ==
  IF hook = "getAccounts" THEN NoPayload
  ELSE IF hook \in {"signMessage", "signPersonalMessage", "signTypedMessage"}
    THEN [payload EXCEPT !.params.messageStandard = hook]
    ELSE payload

\* An await that goes on whatever the state of the widget promise.
widgetResolvedAlways(w) == TRUE

\* (await this.widget) goes on once the widget promise is resolved.
widgetResolved(w) == w.state = "resolved"

\* A call that sends the config the session was constructed with.
configSentFromConstruction(cfg) ==
  [cfg EXCEPT !.network = networkAdapter(ctorArgs.network),
              !.defaultEmail = Undefined]

\* The config a remote call carries: this.config as it is when the call is
\* made.
configSent(cfg) == cfg

\* A hook or the relay handler resumes after (await this.widget): it reads
\* this.config and issues its remote call.
Resume(i) ==
  /\ idle
  /\ i \in 1..Len(requests)
  /\ requests[i].pc = "awaitWidget"
  /\ widgetResolved(widget)
  /\ requests' = [requests EXCEPT ![i].pc = "awaitRemote",
                                  ![i].calls = @ + 1,
                                  ![i].session = widget.session]
  /\ remote' = [NoRemote EXCEPT
                  !.kind = "call", !.fn = remoteFn(requests[i].hook),
                  !.by = "request",
                  !.payload = remotePayload(requests[i].hook, requests[i].payload),
                  !.session = widget.session, !.config = configSent(config)]
  /\ returned' = NoReturn /\ delivered' = NoDelivery
  /\ UNCHANGED <<phase, ctorArgs, readyState, loadListener, widget, connections,
                 containers, frameHeight, provider, config, selectedAddress,
                 onLoginCallback, uiCalls,
                 lastAccounts>>

\* A getAccounts hook that keeps the address it cached first.
cachedAddressFirstWins(selected, error, result) ==
  IF ~isSet(error) /\ Truthy(result) /\ ~isSet(selected)
    THEN FirstOf(result) ELSE selected

\* A getAccounts hook that caches nothing.
cachedAddressNever(selected, error, result) == selected

\* getAccounts: if (!error && result) this.selectedAddress = result[0]
cachedAddress(selected, error, result) ==
  IF ~isSet(error) /\ Truthy(result) THEN FirstOf(result) ELSE selected

\* A stage that calls the hook again when its answer carries an error.
afterHookRetries(hook, payload, error, result) ==
  IF isSet(error)
    THEN [kind |-> "hook", error |-> Undefined, result |-> Null, hook |-> hook]
    ELSE [kind |-> "end", error |-> Undefined, result |-> result, hook |-> "none"]

\* What the HookedWallet stage does with cb(error, result) of a hook:
\* it ends the request, calls the next hook, or throws on a null list.
afterHook(hook, payload, error, result) ==
  CASE hook = "getAccounts" /\ isSet(error) ->
         [kind |-> "end", error |-> error, result |-> Null, hook |-> "none"]
    [] hook = "getAccounts" /\ ~isSet(error) /\ payload.method = "eth_accounts" ->
         [kind |-> "end", error |-> Undefined, result |-> result, hook |-> "none"]
    [] hook = "getAccounts" /\ ~isSet(error) /\ payload.method # "eth_accounts"
         /\ result.t # "list" ->
         [kind |-> "throw", error |-> Undefined, result |-> Null, hook |-> "none"]
    [] hook = "getAccounts" /\ ~isSet(error) /\ payload.method = "eth_coinbase"
         /\ result.t = "list" ->
         [kind |-> "end", error |-> Undefined,
          result |-> IF isSet(FirstOf(result)) THEN Str(FirstOf(result)) ELSE Null,
          hook |-> "none"]
    [] hook = "getAccounts" /\ ~isSet(error) /\ payload.method \in SignMethods
         /\ result.t = "list" ->
         IF \E k \in 1..Len(result.v) : result.v[k] = payload.params.from
           THEN [kind |-> "hook", error |-> Undefined, result |-> Null,
                 hook |-> hookFor(payload.method)]
           ELSE [kind |-> "end", error |-> "unknownAddress", result |-> Null,
                 hook |-> "none"]
    [] OTHER ->
         [kind |-> "end", error |-> error, result |-> result, hook |-> "none"]

\* The relay handler: end(error, result).
afterRelay(error, result) ==
  [kind |-> "end", error |-> error, result |-> result, hook |-> "none"]

\* What the answer {error, result} of its remote call leads a request to.
answered(req, error, result) ==
  IF req.hook = "relay"
    THEN afterRelay(error, result)
    ELSE afterHook(req.hook, req.payload, error, result)

AnswersTo(hook) ==
  IF hook = "getAccounts" THEN Errors \X AccountResults ELSE Errors \X OtherResults

\* The remote call of request i resolves to {error, result}: the hook or the
\* relay handler resumes after its second await and runs to its end.
RemoteAnswers(i, error, result) ==
  /\ idle
  /\ i \in 1..Len(requests)
  /\ requests[i].pc = "awaitRemote"
  /\ <<error, result>> \in AnswersTo(requests[i].hook)
  /\ selectedAddress' =
       IF requests[i].hook = "getAccounts"
         THEN cachedAddress(selectedAddress, error, result)
         ELSE selectedAddress
  /\ LET a == answered(requests[i], error, result) IN
       CASE a.kind = "hook" ->
              /\ requests' = [requests EXCEPT ![i].pc = "awaitWidget",
                                              ![i].hook = a.hook]
              /\ delivered' = NoDelivery
         [] a.kind = "end" ->
              /\ requests' = remove(requests, i)
              /\ delivered' = finish(requests[i], i, a.error, a.result)
         [] a.kind = "throw" ->
              /\ requests' = remove(requests, i)
              /\ delivered' = drop(requests[i], i)
  /\ remote' = [NoRemote EXCEPT
                  !.kind = "answer", !.fn = remoteFn(requests[i].hook),
                  !.by = "request", !.error = error, !.result = result]
  /\ lastAccounts' =
       IF requests[i].hook = "getAccounts" /\ ~isSet(error) /\ result.t = "list"
         THEN result ELSE lastAccounts
  /\ returned' = NoReturn
  /\ UNCHANGED <<phase, ctorArgs, readyState, loadListener, widget, connections,
                 containers, frameHeight, provider, config, onLoginCallback,
                 uiCalls>>

\* The remote call of request i rejects: the await throws inside the async
\* hook or handler, which ends there without calling cb or end.
RemoteRejects(i) ==
  /\ idle
  /\ i \in 1..Len(requests)
  /\ requests[i].pc = "awaitRemote"
  /\ requests' = remove(requests, i)
  /\ delivered' = drop(requests[i], i)
  /\ remote' = [NoRemote EXCEPT !.kind = "reject",
                                !.fn = remoteFn(requests[i].hook),
                                !.by = "request"]
  /\ returned' = NoReturn
  /\ UNCHANGED <<phase, ctorArgs, readyState, loadListener, widget, connections,
                 containers, frameHeight, provider, config, selectedAddress,
                 onLoginCallback, uiCalls,
                 lastAccounts>>

\* ----------------------------------------------------- the session methods
\* An assignment that builds the config anew and loses the default email.
withNetworkOnly(cfg, network) ==
  [cfg EXCEPT !.network = networkAdapter(network), !.defaultEmail = Undefined]

\* this.config.network = networkAdapter(network)
withNetwork(cfg, network) == [cfg EXCEPT !.network = networkAdapter(network)]

\* this.config.defaultEmail = email
withDefaultEmail(cfg, email) == [cfg EXCEPT !.defaultEmail = email]

\* changeNetwork(network)
ChangeNetwork(network) ==
  /\ idle
  /\ phase = "constructed"
  /\ config' = withNetwork(config, network)
  /\ quiet
  /\ UNCHANGED <<phase, ctorArgs, readyState, loadListener, widget, connections,
                 containers, frameHeight, provider, selectedAddress,
                 onLoginCallback, requests, uiCalls,
                 lastAccounts>>

\* setDefaultEmail(email)
SetDefaultEmail(email) ==
  /\ idle
  /\ phase = "constructed"
  /\ config' = withDefaultEmail(config, email)
  /\ quiet
  /\ UNCHANGED <<phase, ctorArgs, readyState, loadListener, widget, connections,
                 containers, frameHeight, provider, selectedAddress,
                 onLoginCallback, requests, uiCalls,
                 lastAccounts>>

\* onLogin(callback)
OnLogin(callback) ==
  /\ idle
  /\ phase = "constructed"
  /\ onLoginCallback' = callback
  /\ quiet
  /\ UNCHANGED <<phase, ctorArgs, readyState, loadListener, widget, connections,
                 containers, frameHeight, provider, config, selectedAddress,
                 requests, uiCalls,
                 lastAccounts>>

\* showPortis(), login() and the widget's call of _setHeight(height), each
\* up to its (await this.widget).  The widget can call _setHeight once a
\* connection to it exists.
UiCall(kind, height) ==
  /\ idle
  /\ phase = "constructed"
  /\ uiRoom
  /\ kind = "setHeight" => handshakes > 0
  /\ uiCalls' = Append(uiCalls, [kind |-> kind, height |-> height,
                                 pc |-> "awaitWidget", session |-> 0])
  /\ quiet
  /\ UNCHANGED <<phase, ctorArgs, readyState, loadListener, widget, connections,
                 containers, frameHeight, provider, config, selectedAddress,
                 onLoginCallback, requests,
                 lastAccounts>>

ShowPortis == UiCall("showPortis", 0)

Login == UiCall("login", 0)

SetHeight(height) == UiCall("setHeight", height)

\* A showPortis, login or _setHeight call resumes after (await this.widget):
\* the first two issue their remote call with this.config, the last one sets
\* the height of the widget frame and is done.
UiResume(j) ==
  /\ idle
  /\ j \in 1..Len(uiCalls)
  /\ uiCalls[j].pc = "awaitWidget"
  /\ widgetResolved(widget)
  /\ IF uiCalls[j].kind = "setHeight"
       THEN /\ frameHeight' = uiCalls[j].height
            /\ uiCalls' = remove(uiCalls, j)
            /\ remote' = NoRemote
            /\ returned' = [NoReturn EXCEPT !.kind = "resolved",
                                            !.call = "setHeight",
                                            !.session = widget.session]
       ELSE /\ frameHeight' = frameHeight
            /\ uiCalls' = [uiCalls EXCEPT ![j].pc = "awaitRemote",
                                          ![j].session = widget.session]
            /\ remote' = [NoRemote EXCEPT
                            !.kind = "call", !.fn = uiCalls[j].kind,
                            !.by = "ui", !.session = widget.session,
                            !.config = configSent(config)]
            /\ returned' = NoReturn
  /\ delivered' = NoDelivery
  /\ UNCHANGED <<phase, ctorArgs, readyState, loadListener, widget, connections,
                 containers, provider, config, selectedAddress, onLoginCallback,
                 requests,
                 lastAccounts>>

\* The remote showPortis or login call settles: the promise the caller holds
\* resolves, or rejects with the remote's rejection.
UiSettles(j, outcome) ==
  /\ idle
  /\ j \in 1..Len(uiCalls)
  /\ uiCalls[j].pc = "awaitRemote"
  /\ outcome \in {"resolved", "rejected"}
  /\ uiCalls' = remove(uiCalls, j)
  /\ returned' = [NoReturn EXCEPT !.kind = outcome, !.call = uiCalls[j].kind,
                                  !.session = uiCalls[j].session]
  /\ remote' = [NoRemote EXCEPT
                  !.kind = IF outcome = "resolved" THEN "answer" ELSE "reject",
                  !.fn = uiCalls[j].kind, !.by = "ui"]
  /\ delivered' = NoDelivery
  /\ UNCHANGED <<phase, ctorArgs, readyState, loadListener, widget, connections,
                 containers, frameHeight, provider, config, selectedAddress,
                 onLoginCallback, requests,
                 lastAccounts>>

\* ----------------------------------------------------------- specification
Init ==
  /\ phase = "new"
  /\ ctorArgs = NoArgs
  /\ readyState \in ReadyStates
  /\ loadListener = FALSE
  /\ widget = NoWidget
  /\ connections = <<>>
  /\ containers = 0
  /\ frameHeight = 0
  /\ provider = FALSE
  /\ config = NoConfig
  /\ selectedAddress = Undefined
  /\ onLoginCallback = Undefined
  /\ requests = <<>>
  /\ uiCalls = <<>>
  /\ returned = NoReturn
  /\ delivered = NoDelivery
  /\ remote = NoRemote
  /\ lastAccounts = Null

Observe ==
  /\ ~idle
  /\ quiet
  /\ UNCHANGED <<phase, ctorArgs, readyState, loadListener, widget, connections,
                 containers, frameHeight, provider, config, selectedAddress,
                 onLoginCallback, requests, uiCalls, lastAccounts>>

Environment ==
  \/ DocumentInteractive
  \/ WindowLoad
  \/ \E i \in 1..Len(connections) : HandshakeResolves(i)
  \/ \E i \in 1..Len(connections) : HandshakeRejects(i)

Remote ==
  \/ \E i \in 1..Len(requests) : Resume(i)
  \/ \E i \in 1..Len(requests), e \in Errors, r \in AccountResults \cup OtherResults :
       RemoteAnswers(i, e, r)
  \/ \E i \in 1..Len(requests) : RemoteRejects(i)

Ui ==
  \/ ShowPortis
  \/ Login
  \/ \E h \in Heights : SetHeight(h)
  \/ \E j \in 1..Len(uiCalls) : UiResume(j)
  \/ \E j \in 1..Len(uiCalls), o \in {"resolved", "rejected"} : UiSettles(j, o)

\* A construction that passes validation.
ConstructValid ==
  Construct("dapp1", "mainnet", [scope |-> [kind |-> "array", items |-> <<"email">>]])

\* The whole session object: every operation, with one request in flight at
\* a time and the payloads that reach the widget.
SessionPayloads ==
  {p \in Payloads : p.id = 1 /\ p.method \in {"eth_accounts", "eth_getBalance", "eth_sign"}}
SessionSyncPayloads ==
  {p \in Payloads : p.id = 1 /\ p.method \in {"eth_accounts", "eth_getBalance"}}
sessionRoom == Len(requests) < MaxSessionRequests

Next ==
  \/ ConstructValid
  \/ Environment
  \/ Remote
  \/ Ui
  \/ \E p \in SessionPayloads : \E lib \in LibChoicesFor(p.method) :
       sessionRoom /\ SendAsync(p, lib)
  \/ \E lib \in LibChoicesFor("eth_accounts") : sessionRoom /\ Enable(lib)
  \/ \E p \in SessionSyncPayloads : \E lib \in LibChoicesFor(p.method) :
       SendSync(p, lib)
  \/ \E n \in NetworkNames : ChangeNetwork(n)
  \/ \E e \in Emails : SetDefaultEmail(e)
  \/ \E c \in LoginCallbacks : OnLogin(c)
  \/ Observe

Spec == Init /\ [][Next]_vars

\* The pipeline: requests of every method, several in flight.
NextPipeline ==
  \/ ConstructValid
  \/ Environment
  \/ Remote
  \/ \E p \in Payloads : \E lib \in LibChoicesFor(p.method) : SendAsync(p, lib)
  \/ \E lib \in LibChoicesFor("eth_accounts") : Enable(lib)
  \/ Observe

SpecPipeline == Init /\ [][NextPipeline]_vars

\* The synchronous facade next to the asynchronous path.
FacadePayloads ==
  {p \in Payloads : p.method \in {"eth_accounts", "eth_getBalance"}}

NextFacade ==
  \/ ConstructValid
  \/ Environment
  \/ Remote
  \/ \E p \in FacadePayloads : \E lib \in LibChoicesFor(p.method) : SendAsync(p, lib)
  \/ \E p \in SyncPayloads : \E lib \in LibChoicesFor(p.method) : SendSync(p, lib)
  \/ Observe

SpecFacade == Init /\ [][NextFacade]_vars

\* Construction with every combination of arguments, and the calls that
\* need the widget.
NextConstruct ==
  \/ \E d \in DappIds, n \in NetworkInputs, s \in ScopeInputs :
       Construct(d, n, [scope |-> s])
  \/ Environment
  \/ Ui
  \/ Observe

SpecConstruct == Init /\ [][NextConstruct]_vars

\* The signing hooks: every signing method, with and without a
\* messageStandard of the caller's own, next to an account query and a
\* relayed method.
SigningPayloads ==
  { [id |-> 1, jsonrpc |-> "2.0", method |-> m,
     params |-> [from |-> "0xA", data |-> "0xdata", messageStandard |-> ms]] :
       m \in SignMethods, ms \in {Undefined, "signTypedMessage"} }
    \cup {p \in Payloads : p.id = 2 /\ p.method \in {"eth_accounts", "foo_bar"}}

NextSigning ==
  \/ ConstructValid
  \/ Environment
  \/ Remote
  \/ \E p \in SigningPayloads : \E lib \in LibChoicesFor(p.method) :
       sessionRoom /\ SendAsync(p, lib)
  \/ Observe

SpecSigning == Init /\ [][NextSigning]_vars

\* Requests and widget calls submitted under the config of the construction,
\* and the config changed while they are pending.
ConfigPayloads ==
  {p \in Payloads : p.id = 1 /\ p.method \in {"eth_accounts", "eth_sign", "foo_bar"}}

configOfConstruction ==
  config.network = networkAdapter(ctorArgs.network) /\ config.defaultEmail = Undefined

NextConfig ==
  \/ ConstructValid
  \/ Environment
  \/ Remote
  \/ \E j \in 1..Len(uiCalls) : UiResume(j)
  \/ \E j \in 1..Len(uiCalls), o \in {"resolved", "rejected"} : UiSettles(j, o)
  \/ \E p \in ConfigPayloads : \E lib \in LibChoicesFor(p.method) :
       sessionRoom /\ configOfConstruction /\ SendAsync(p, lib)
  \/ configOfConstruction /\ ShowPortis
  \/ configOfConstruction /\ Login
  \/ \E p \in SessionSyncPayloads : \E lib \in LibChoicesFor(p.method) :
       SendSync(p, lib)
  \/ \E n \in NetworkNames : ChangeNetwork(n)
  \/ \E e \in Emails : SetDefaultEmail(e)
  \/ Observe

SpecConfig == Init /\ [][NextConfig]_vars

\* The widget session and every caller that awaits it: pipeline requests
\* that reach the hooks and the relay, showPortis, login and setHeight.
NextWidget ==
  \/ ConstructValid
  \/ Environment
  \/ Remote
  \/ Ui
  \/ \E p \in SessionPayloads : \E lib \in LibChoicesFor(p.method) :
       sessionRoom /\ SendAsync(p, lib)
  \/ Observe

SpecWidget == Init /\ [][NextWidget]_vars

\* ------------------------------------------------------------------ claims
\* The requests a state shows: those in flight and the one just finished.
shown ==
  {requests[i] : i \in 1..Len(requests)}
    \cup (IF delivered.kind = "none" THEN {} ELSE {delivered.req})

\* C1: every response carries the id of the request that produced it: the
\* object a send without callback returns, and the response a callback of
\* the asynchronous path receives, whatever the order in which the requests
\* in flight finish.
ResponseIdIsRequestId ==
  /\ delivered.kind \in {"callback", "settle", "discard"} =>
       delivered.response.id = delivered.req.payload.id
  /\ returned.kind = "response" =>
       returned.response.id = returned.payload.id

\* The request submitted second finishes its remote round trip while the
\* one submitted first, with another id, is still waiting for its own.
SecondFinishesFirst ==
  /\ delivered.kind = "callback"
  /\ delivered.pos = 2
  /\ delivered.req.calls >= 1
  /\ Len(requests) >= 1
  /\ requests[1].pc = "awaitRemote"
  /\ requests[1].payload.id # delivered.req.payload.id

\* C2: the stages are consulted in the order Fixture, Cache, Subscriptions,
\* Filter, Nonce, HookedWallet, Relay and none after the stage that takes
\* the request; a request for a Fixture method is ended by the Fixture
\* stage, reaches neither HookedWallet nor Relay and causes no remote call.
StagesInRegistrationOrder ==
  \A req \in shown :
    /\ req.stage \in 1..7
    /\ req.visited = [k \in 1..req.stage |-> k]
    /\ req.payload.method \in FixtureMethods =>
         /\ req.stage = Fixture
         /\ req.pc = "done"
         /\ req.calls = 0
         /\ req.session = 0
    /\ req.calls > 0 => req.stage \in {HookedWallet, Relay}
    /\ req.hook = "relay" <=> req.stage = Relay

\* A Fixture method answered within sendAsync while another request waits
\* for the widget in the Relay stage.
FixtureAnswersAtOnce ==
  /\ delivered.kind = "callback"
  /\ delivered.req.payload.method \in FixtureMethods
  /\ delivered.req.visited = <<Fixture>>
  /\ \E i \in 1..Len(requests) : requests[i].stage = Relay

\* C3: a request no stage before the Relay stage ends is always ended by
\* the Relay stage, after one relay call, with the remote error or result.
RelayAlwaysEnds ==
  (delivered.kind # "none" /\ delivered.req.stage = Relay) =>
    /\ delivered.kind # "dropped"
    /\ delivered.req.calls = 1
    /\ remote.kind = "answer" /\ remote.fn = "relay"
    /\ delivered.error = remote.error
    /\ delivered.response.result = remote.result

\* The relay call rejects: the request leaves the pipeline and no callback
\* runs.
RelayDropsRequest ==
  /\ delivered.kind = "dropped"
  /\ delivered.req.stage = Relay
  /\ delivered.req.calls = 1
  /\ remote.kind = "reject" /\ remote.fn = "relay"

\* C4: selectedAddress changes only in the step in which a getAccounts round
\* trip answers without error and with a non-empty address list.
SelectedAddressChangesOnlyOnAccounts ==
  [][selectedAddress' # selectedAddress =>
       /\ remote'.kind = "answer" /\ remote'.fn = "getAccounts"
       /\ ~isSet(remote'.error)
       /\ remote'.result.t = "list" /\ Len(remote'.result.v) > 0]_vars

\* C5: the session object initiates one connect handshake at most and
\* attaches one container at most, and every caller that went past its
\* await of the widget holds the session the widget promise resolved to.
OneHandshakeOneSession ==
  /\ handshakes <= 1
  /\ containers <= 1
  /\ widget.state = "resolved" => widget.session \in 1..handshakes
  /\ \A i \in 1..Len(requests) :
       requests[i].calls > 0 =>
         widget.state = "resolved" /\ requests[i].session = widget.session
  /\ \A j \in 1..Len(uiCalls) :
       uiCalls[j].pc = "awaitRemote" =>
         widget.state = "resolved" /\ uiCalls[j].session = widget.session
  /\ remote.kind = "call" => remote.session = widget.session
  /\ returned.kind \in {"resolved", "rejected"} =>
       returned.session = widget.session

\* A request and a showPortis or login call are past their await of the
\* widget at one time, both on the session of the one handshake.
CallersShareSession ==
  /\ handshakes = 1
  /\ \E i \in 1..Len(requests), j \in 1..Len(uiCalls) :
       /\ requests[i].calls > 0
       /\ uiCalls[j].pc = "awaitRemote"
       /\ requests[i].session = uiCalls[j].session
       /\ uiCalls[j].session = widget.session

\* C6: a send without callback of a method other than eth_accounts,
\* eth_coinbase and eth_uninstallFilter throws, returns no response, admits
\* no request, issues no remote call and leaves selectedAddress and config
\* as they were.
UnsupportedSyncThrows ==
  [][(returned'.call = "send"
        /\ returned'.payload.method \notin
             {"eth_accounts", "eth_coinbase", "eth_uninstallFilter"}) =>
       /\ returned'.kind = "throw"
       /\ returned'.error = "unsupportedSyncMethod"
       /\ returned'.response = NoResponse
       /\ requests' = requests
       /\ delivered' = NoDelivery
       /\ remote' = NoRemote
       /\ selectedAddress' = selectedAddress
       /\ config' = config]_vars

\* A send of eth_getBalance without callback throws while a request is in
\* flight and an address is cached.
SyncThrowBesideRequest ==
  /\ returned.kind = "throw"
  /\ returned.payload.method = "eth_getBalance"
  /\ Len(requests) > 0
  /\ isSet(selectedAddress)

\* C7: a send of eth_accounts or eth_coinbase without callback returns the
\* empty list while no getAccounts round trip has answered with a list, and
\* the list of the first address of the latest such answer when that answer
\* holds an address; the call admits no request, issues no remote call and
\* leaves selectedAddress as it was.
SyncAccountQuery ==
  [][(returned'.call = "send" /\ returned'.payload.method \in AccountMethods) =>
       /\ returned'.kind = "response"
       /\ lastAccounts = Null => returned'.response.result = List(<<>>)
       /\ (lastAccounts.t = "list" /\ Len(lastAccounts.v) > 0) =>
            /\ returned'.response.result = List(<<lastAccounts.v[1]>>)
            /\ returned'.response.result = List(<<selectedAddress>>)
       /\ requests' = requests
       /\ delivered' = NoDelivery
       /\ remote' = NoRemote
       /\ selectedAddress' = selectedAddress]_vars

\* After getAccounts answered ["0xB", "0xA"], the synchronous query returns
\* ["0xB"].
SyncQueryReturnsCached ==
  /\ returned.kind = "response"
  /\ returned.payload.method \in AccountMethods
  /\ lastAccounts = List(<<"0xB", "0xA">>)
  /\ returned.response.result = List(<<"0xB">>)

\* The arguments _valiadateParams rejects: no dappId, no network, a scope
\* that is no array or a scope with an item other than 'email'.
rejectedArgs(args) ==
  \/ args.dappId = ""
  \/ args.network = ""
  \/ args.scope.kind = "nonArray"
  \/ args.scope.kind = "array"
       /\ \E k \in 1..Len(args.scope.items) : args.scope.items[k] # "email"

\* C8: a construction without dappId, without network or with a malformed
\* scope throws, and then and ever after there is no widget promise, no
\* handshake, no container, no load listener, no pipeline and no config.
InvalidConstructionCreatesNothing ==
  (phase # "new" /\ rejectedArgs(ctorArgs)) =>
    /\ phase = "threw"
    /\ widget = NoWidget
    /\ connections = <<>>
    /\ containers = 0
    /\ ~loadListener
    /\ ~provider
    /\ config = NoConfig
    /\ requests = <<>> /\ uiCalls = <<>>

\* The constructor threw on a scope with an unknown item in a document
\* that is fully loaded.
ThrewOnScopeBeforeLoad ==
  /\ phase = "threw"
  /\ ctorArgs.dappId # "" /\ ctorArgs.network # ""
  /\ ctorArgs.scope.items = <<"email", "unknownValue">>
  /\ readyState = "complete"
  /\ containers = 0

\* C9: enable() admits one eth_accounts request, which calls getAccounts
\* once; its promise settles in the step that ends this request, once,
\* rejected with the round trip's error if it reports one and resolved to
\* the round trip's result otherwise.
EnableSettlesOnce ==
  [][/\ \A req \in shown :
          req.origin = "enable" =>
            /\ req.payload = enablePayload
            /\ req.stage = HookedWallet
            /\ req.calls <= 1
     /\ delivered'.kind = "settle" =>
          /\ delivered'.pos \in 1..Len(requests)
          /\ requests[delivered'.pos].origin = "enable"
          /\ requests[delivered'.pos].pc = "awaitRemote"
          /\ requests' = remove(requests, delivered'.pos)
          /\ delivered'.req.calls = 1
          /\ remote'.kind = "answer" /\ remote'.fn = "getAccounts"
          /\ delivered'.promise =
               IF isSet(remote'.error)
                 THEN [state |-> "rejected", error |-> remote'.error,
                       value |-> Null]
                 ELSE [state |-> "resolved", error |-> Undefined,
                       value |-> remote'.result]
     /\ (delivered'.kind # "settle" /\ delivered'.kind # "none") =>
          delivered'.promise = NoPromise]_vars

\* enable()'s promise rejects with the error of the round trip while a
\* second enable() is still in flight.
EnableRejects ==
  /\ delivered.kind = "settle"
  /\ delivered.promise.state = "rejected"
  /\ delivered.promise.error = "denied"
  /\ \E i \in 1..Len(requests) : requests[i].origin = "enable"

\* C10: a send of eth_uninstallFilter without callback returns a response
\* with result true and the request's id, and passes the same payload once
\* to sendAsync with a callback that discards the outcome.
UninstallFilterFireAndForget ==
  [][(returned'.call = "send"
        /\ returned'.payload.method = "eth_uninstallFilter") =>
       /\ returned'.kind = "response"
       /\ returned'.response.result = Bool(TRUE)
       /\ returned'.response.id = returned'.payload.id
       /\ returned'.response.error = Undefined
       /\ delivered'.kind = "discard"
       /\ delivered'.req.origin = "forget"
       /\ delivered'.req.payload = returned'.payload
       /\ delivered'.promise = NoPromise
       /\ requests' = requests
       /\ remote' = NoRemote
       /\ selectedAddress' = selectedAddress]_vars

\* The synchronous uninstall returned true and its asynchronous twin was
\* ended by the Filter stage, its outcome discarded.
UninstallReturnedTrue ==
  /\ returned.kind = "response"
  /\ returned.payload.method = "eth_uninstallFilter"
  /\ returned.response.result = Bool(TRUE)
  /\ delivered.kind = "discard"
  /\ delivered.req.stage = Filter
  /\ Len(requests) > 0

\* The signing hooks, which run after the sender was validated against
\* getAccounts.
SigningHooks ==
  {"signMessage", "signPersonalMessage", "signTypedMessage", "signTransaction"}

ScopeValidation ==
  (phase # "new" /\ ctorArgs.dappId # "" /\ ctorArgs.network # "") =>
    (phase = "threw" <=>
       \/ ctorArgs.scope.kind \in {"nonArray", "falsy"}
       \/ \E k \in 1..Len(ctorArgs.scope.items) : ctorArgs.scope.items[k] # "email")

\* A session constructed with a scope that is no array.
ConstructedWithFalsyScope ==
  /\ phase = "constructed"
  /\ ctorArgs.scope.kind = "falsy"
  /\ config.scope.kind = "falsy"
  /\ handshakes = 1

\* C13: whatever the order in which the getAccounts round trips in flight
\* answer, selectedAddress is the first address of the list answered last
\* without error: the answer that arrives last wins.
LastResolvedWins ==
  [][/\ selectedAddress' =
          IF lastAccounts' = Null THEN Undefined ELSE FirstOf(lastAccounts')
     /\ (remote'.kind = "answer" /\ remote'.fn = "getAccounts"
           /\ ~isSet(remote'.error) /\ remote'.result.t = "list") =>
          /\ lastAccounts' = remote'.result
          /\ selectedAddress' = FirstOf(remote'.result)
     /\ ~(remote'.kind = "answer" /\ remote'.fn = "getAccounts") =>
          selectedAddress' = selectedAddress]_vars

\* The getAccounts round trip submitted second answers ["0xB", "0xA"] while
\* the one submitted first is still out.
SecondAccountsAnswerFirst ==
  /\ remote.kind = "answer" /\ remote.fn = "getAccounts"
  /\ remote.result = List(<<"0xB", "0xA">>)
  /\ delivered.pos = 2
  /\ requests[1].hook = "getAccounts" /\ requests[1].pc = "awaitRemote"
  /\ selectedAddress = "0xB"

\* C14: every remote call carries this.config as it is when the call is
\* issued: a network or default email set after the request or the widget
\* call was submitted is the one the call transmits.
ConfigReadAtCallTime ==
  remote.kind = "call" =>
    /\ remote.config = config
    /\ remote.fn \in {"getAccounts", "signTransaction", "signMessage", "relay",
                      "showPortis", "login"}

\* A relay call of a request submitted under the config of the construction
\* carries the network and the default email set since.
CallCarriesChangedConfig ==
  /\ remote.kind = "call" /\ remote.by = "request" /\ remote.fn = "relay"
  /\ remote.config.network = networkAdapter("ropsten")
  /\ remote.config.defaultEmail = "a@x.io"
  /\ ctorArgs.network = "mainnet"

\* C15 as stated: the construction initiates no handshake and attaches no
\* container; they wait for the first operation that needs the channel.
NothingCreatedByConstruction ==
  [][(phase = "new" /\ phase' = "constructed") =>
       handshakes' = 0 /\ containers' = 0]_vars

\* C15: the widget is created by the construction: in a document that is
\* ready the constructor attaches the container and initiates the
\* handshake, in one that is loading the window's load event does; no other
\* operation attaches a container or initiates a handshake.
WidgetCreatedByConstruction ==
  [][/\ phase' = "constructed" =>
          /\ widget'.state # "unset"
          /\ IF loadListener' /\ readyState' # "complete"
               THEN handshakes' = 0 /\ containers' = 0
               ELSE handshakes' = 1 /\ containers' = 1
     /\ (handshakes' # handshakes \/ containers' # containers) =>
          /\ \/ phase = "new" /\ phase' = "constructed"
             \/ loadListener /\ readyState # "complete" /\ readyState' = "complete"
          /\ requests' = requests
          /\ uiCalls' = uiCalls]_vars

\* A session just constructed in a loaded document: the handshake is under
\* way and no request or widget call is pending.
HandshakeWithoutOperation ==
  /\ phase = "constructed"
  /\ handshakes = 1 /\ containers = 1
  /\ connections = <<"pending">>
  /\ ~loadListener
  /\ requests = <<>> /\ uiCalls = <<>>
  /\ lastAccounts = Null /\ frameHeight = 0
  /\ config.defaultEmail = Undefined /\ onLoginCallback = Undefined

MessageHooks == {"signMessage", "signPersonalMessage", "signTypedMessage"}

\* C16: each message-signing hook calls the remote signMessage with the
\* caller's parameters and a messageStandard that is the hook's own name,
\* whatever messageStandard the parameters held; the caller's parameters
\* stay as submitted; the callback receives the remote error and result.
MessageStandardTagged ==
  /\ \A i \in 1..Len(requests) : requests[i].payload \in SigningPayloads
  /\ (remote.kind = "call" /\ remote.fn = "signMessage") =>
       \E i \in 1..Len(requests) :
         /\ requests[i].pc = "awaitRemote"
         /\ requests[i].hook \in MessageHooks
         /\ requests[i].hook = hookFor(requests[i].payload.method)
         /\ remote.payload.params.messageStandard = requests[i].hook
         /\ remote.payload =
              [requests[i].payload EXCEPT !.params.messageStandard = requests[i].hook]
  /\ (remote.kind = "call" /\ remote.by = "request") =>
       (remote.fn = "signMessage" <=>
          remote.payload.method \in {"eth_sign", "personal_sign", "eth_signTypedData"})
  /\ (remote.kind = "answer" /\ remote.fn = "signMessage") =>
       /\ delivered.kind = "callback"
       /\ delivered.error = remote.error
       /\ delivered.response.result = remote.result

\* The signPersonalMessage hook calls signMessage for parameters the caller
\* had tagged signTypedMessage.
PersonalMessageRetagged ==
  /\ remote.kind = "call" /\ remote.fn = "signMessage"
  /\ remote.payload.method = "personal_sign"
  /\ remote.payload.params.messageStandard = "signPersonalMessage"
  /\ \E i \in 1..Len(requests) :
       /\ requests[i].pc = "awaitRemote"
       /\ requests[i].payload.params.messageStandard = "signTypedMessage"

\* C17: a request gets its response only in the step in which a stage
\* ends it: within sendAsync for a request a stage before HookedWallet
\* answers, and in the step its remote call answers for any other; while
\* that call is out the request stays as it is, whatever else happens.
NoResponseWithoutEnd ==
  [][/\ delivered'.kind \in {"callback", "settle", "discard"} =>
          \/ /\ delivered'.req.calls = 0
             /\ delivered'.req.stage \notin {HookedWallet, Relay}
             /\ remote' = NoRemote
             /\ requests' = requests
          \/ /\ remote'.kind = "answer" /\ remote'.by = "request"
             /\ delivered'.pos \in 1..Len(requests)
             /\ requests[delivered'.pos].pc = "awaitRemote"
             /\ requests' = remove(requests, delivered'.pos)
     /\ remote'.kind \notin {"answer", "reject"} =>
          /\ Len(requests') >= Len(requests)
          /\ \A i \in 1..Len(requests) :
               /\ requests'[i].payload = requests[i].payload
               /\ requests[i].pc = "awaitRemote" => requests'[i] = requests[i]]_vars

\* The relay call of the first request is still out while the second
\* request, submitted later, is answered.
RelayCallStillOut ==
  /\ Len(requests) >= 1
  /\ requests[1].stage = Relay /\ requests[1].pc = "awaitRemote"
  /\ delivered.kind = "callback" /\ delivered.pos = 2
  /\ delivered.req.stage = HookedWallet

\* C18: a remote call is issued only once the handshake has resolved;
\* until then every request and every showPortis or login call stays held
\* as submitted, and a call that is issued is the call of one held request
\* or widget call, which thereby passes its await.
HeldUntilHandshake ==
  [][/\ remote'.kind = "call" =>
          /\ widget.state = "resolved" /\ widget' = widget
          /\ connections[widget.session] = "resolved"
          /\ remote'.session = widget.session
     /\ widget.state # "resolved" =>
          /\ remote'.kind = "none"
          /\ \A i \in 1..Len(requests) :
               /\ requests[i].pc = "awaitWidget" /\ requests[i].calls = 0
               /\ requests'[i] = requests[i]
          /\ \A j \in 1..Len(uiCalls) :
               /\ uiCalls[j].pc = "awaitWidget"
               /\ uiCalls'[j] = uiCalls[j]
     /\ (remote'.kind = "call" /\ remote'.by = "request") =>
          \E i \in 1..Len(requests) :
            /\ requests[i].pc = "awaitWidget"
            /\ requests' = [requests EXCEPT ![i].pc = "awaitRemote",
                                            ![i].calls = @ + 1,
                                            ![i].session = widget.session]
            /\ uiCalls' = uiCalls
     /\ (remote'.kind = "call" /\ remote'.by = "ui") =>
          \E j \in 1..Len(uiCalls) :
            /\ uiCalls[j].pc = "awaitWidget"
            /\ uiCalls' = [uiCalls EXCEPT ![j].pc = "awaitRemote",
                                          ![j].session = widget.session]
            /\ requests' = requests]_vars

\* A request and a widget call are held while the document is loading and
\* no handshake has been initiated.
HeldWhileLoading ==
  /\ readyState = "loading"
  /\ widget.state = "pending"
  /\ handshakes = 0
  /\ \E i \in 1..Len(requests) : requests[i].pc = "awaitWidget"
  /\ \E j \in 1..Len(uiCalls) :
       uiCalls[j].kind \in {"showPortis", "login"} /\ uiCalls[j].pc = "awaitWidget"

\* C19: the widget promise is never rejected; with the handshake failed or
\* not completed it is pending, every request that reached a hook or the
\* relay handler waits without a remote call and without its callback
\* being invoked; a remote call that rejects leaves the callback of its
\* request uninvoked.
WidgetNeverRejects ==
  /\ widget.state \in {"unset", "pending", "resolved"}
  /\ (\A k \in 1..Len(connections) : connections[k] # "resolved") =>
       /\ widget.state # "resolved"
       /\ \A i \in 1..Len(requests) :
            requests[i].pc = "awaitWidget" /\ requests[i].calls = 0
       /\ delivered.kind # "none" =>
            delivered.req.stage \notin {HookedWallet, Relay}
  /\ (remote.kind = "reject" /\ remote.by = "request") =>
       /\ delivered.kind = "dropped"
       /\ delivered.response = NoResponse
       /\ delivered.promise = NoPromise
       /\ delivered.error = Undefined

\* The handshake has failed: the widget promise is pending and two requests
\* wait for it, one in a hook and one in the relay handler.
HandshakeFailedRequestsWait ==
  /\ connections = <<"rejected">>
  /\ widget.state = "pending"
  /\ \E i \in 1..Len(requests) : requests[i].stage = HookedWallet
  /\ \E i \in 1..Len(requests) : requests[i].stage = Relay

\* C20: changeNetwork changes config.network and nothing else,
\* setDefaultEmail config.defaultEmail and nothing else: the cached
\* address, the widget, the login callback and the requests and widget
\* calls in flight stay as they are and no remote call is issued; a
\* synchronous account query returns the cached address whatever the
\* network.
ConfigSettersChangeOnlyConfig ==
  [][/\ (phase = "constructed" /\ config' # config) =>
          /\ \/ config' = [config EXCEPT !.network = config'.network]
             \/ config' = [config EXCEPT !.defaultEmail = config'.defaultEmail]
          /\ selectedAddress' = selectedAddress
          /\ lastAccounts' = lastAccounts
          /\ widget' = widget
          /\ connections' = connections
          /\ onLoginCallback' = onLoginCallback
          /\ requests' = requests
          /\ uiCalls' = uiCalls
          /\ remote' = NoRemote
          /\ delivered' = NoDelivery
          /\ returned' = NoReturn
     /\ (returned'.call = "send" /\ returned'.payload.method \in AccountMethods) =>
          returned'.response.result =
            List(IF isSet(selectedAddress) THEN <<selectedAddress>> ELSE <<>>)]_vars

\* With the network changed to ropsten and a default email set, a
\* synchronous eth_accounts returns the cached address.
CachedAddressUnderNewNetwork ==
  /\ ctorArgs.network = "mainnet"
  /\ config.network = networkAdapter("ropsten")
  /\ config.defaultEmail = "a@x.io"
  /\ returned.kind = "response"
  /\ returned.payload.method = "eth_accounts"
  /\ returned.response.result = List(<<"0xA">>)
  /\ selectedAddress = "0xA"

====
